---- MODULE Spec2Model ----
(***************************************************************************)
(* Model of ml-service/app/main.py: the threat-detector inference service. *)
(*                                                                         *)
(* State: the three module globals (model, model_version,                  *)
(* model_loaded_at), the wall clock, and the outcome of the last call.     *)
(* Operations: load_model / startup_event, health_check, predict,          *)
(* predict_batch, root.                                                    *)
(*                                                                         *)
(* Encodings.  None is the string "None" for string-valued and             *)
(* artifact-valued places and NoTime for datetime-valued places.  Floats   *)
(* in [0,1] (rates, confidences) are integers in hundredths.               *)
(* float('inf') is the sentinel INF.  HTTP outcomes are the status codes.  *)
(***************************************************************************)
EXTENDS Integers, Sequences, FiniteSets, TLC

\* ------------------------------------------------------------------ bounds
MaxBatch == 2      \* longest request.features list enumerated
MaxClock == 2      \* last instant of the wall clock

\* ------------------------------------------------- encodings of Python values
NoTime == 0        \* model_loaded_at = None
INF == 999         \* float('inf'): duration is an unconstrained float

\* ------------------------------------------------------------ FEATURE_NAMES
FEATURE_NAMES ==
    << "duration", "protocol_type", "service", "flag", "src_bytes", "dst_bytes",
       "land", "wrong_fragment", "urgent", "hot", "num_failed_logins", "logged_in",
       "num_compromised", "root_shell", "su_attempted", "num_root", "num_file_creations",
       "num_shells", "num_access_files", "num_outbound_cmds", "is_host_login",
       "is_guest_login", "count", "srv_count", "serror_rate", "srv_serror_rate",
       "rerror_rate", "srv_rerror_rate", "same_srv_rate", "diff_srv_rate",
       "srv_diff_host_rate", "dst_host_count", "dst_host_srv_count",
       "dst_host_same_srv_rate", "dst_host_diff_srv_rate", "dst_host_same_src_port_rate",
       "dst_host_srv_diff_host_rate", "dst_host_serror_rate", "dst_host_srv_serror_rate",
       "dst_host_rerror_rate", "dst_host_srv_rerror_rate" >>

\* The str-typed fields of NetworkTrafficFeatures.
CategoricalFields == {"protocol_type", "service", "flag"}

\* The int fields declared with ge=0, le=1.
BinaryFields ==
    {"land", "logged_in", "root_shell", "su_attempted", "is_host_login", "is_guest_login"}

\* The float fields declared with ge=0, le=1 (held in hundredths).
RateFields ==
    {"serror_rate", "srv_serror_rate", "rerror_rate", "srv_rerror_rate", "same_srv_rate",
     "diff_srv_rate", "srv_diff_host_rate", "dst_host_same_srv_rate",
     "dst_host_diff_srv_rate", "dst_host_same_src_port_rate",
     "dst_host_srv_diff_host_rate", "dst_host_serror_rate", "dst_host_srv_serror_rate",
     "dst_host_rerror_rate", "dst_host_srv_rerror_rate"}

FieldNames == {FEATURE_NAMES[i] : i \in 1..Len(FEATURE_NAMES)}

\* A validated NetworkTrafficFeatures value: every field present, str fields
\* strings, binary fields in {0,1}, rates in [0,1], the other int fields >= 0.
\* duration is a float with no range constraint.
NetworkTrafficFeatures(r) ==
    /\ DOMAIN r = FieldNames
    /\ \A n \in BinaryFields : r[n] \in {0, 1}
    /\ \A n \in RateFields : r[n] \in 0..100
    /\ \A n \in FieldNames \ (CategoricalFields \cup BinaryFields \cup RateFields
                                 \cup {"duration"}) : r[n] \in Nat

\* ------------------------------------------------------- request inputs
\* The all-zero, benign-looking record of the spec's first scenario.
Benign ==
    [n \in FieldNames |->
        CASE n = "protocol_type" -> "tcp"
          [] n = "service" -> "http"
          [] n = "flag" -> "SF"
          [] OTHER -> 0]

\* A record whose numeric fields are pairwise told apart by position wherever
\* the field's range allows it: field i of FEATURE_NAMES holds i, and the six
\* binary fields alternate 1, 0.
Distinct ==
    [n \in FieldNames |->
        CASE n = "protocol_type" -> "udp"
          [] n = "service" -> "domain_u"
          [] n = "flag" -> "S0"
          [] n \in {"land", "root_shell", "is_host_login"} -> 1
          [] n \in {"logged_in", "su_attempted", "is_guest_login"} -> 0
          [] OTHER -> CHOOSE i \in 1..Len(FEATURE_NAMES) : FEATURE_NAMES[i] = n]

\* A flood-like record: many bytes, many connections.
Flood == [Benign EXCEPT !["src_bytes"] = 5000, !["count"] = 300, !["serror_rate"] = 100]

\* A record that passes validation and carries a non-finite duration.
NonFinite == [Flood EXCEPT !["duration"] = INF]

RecordIds == {"benign", "flood", "nonfinite", "distinct"}

FeatureOf(id) ==
    CASE id = "benign" -> Benign
      [] id = "flood" -> Flood
      [] id = "nonfinite" -> NonFinite
      [] id = "distinct" -> Distinct

\* request.features: every list of at most MaxBatch records.
Batches == UNION {[1..k -> RecordIds] : k \in 0..MaxBatch}

\* preprocess_features with count and srv_count in each other's place.
preprocess_features_swapped(features) ==
    << features.duration, features.src_bytes, features.dst_bytes,
       features.land, features.wrong_fragment, features.urgent, features.hot,
       features.num_failed_logins, features.logged_in, features.num_compromised,
       features.root_shell, features.su_attempted, features.num_root,
       features.num_file_creations, features.num_shells, features.num_access_files,
       features.num_outbound_cmds, features.is_host_login, features.is_guest_login,
       features.srv_count, features.count, features.serror_rate,
       features.srv_serror_rate, features.rerror_rate, features.srv_rerror_rate,
       features.same_srv_rate, features.diff_srv_rate, features.srv_diff_host_rate,
       features.dst_host_count, features.dst_host_srv_count,
       features.dst_host_same_srv_rate, features.dst_host_diff_srv_rate,
       features.dst_host_same_src_port_rate, features.dst_host_srv_diff_host_rate,
       features.dst_host_serror_rate, features.dst_host_srv_serror_rate,
       features.dst_host_rerror_rate, features.dst_host_srv_rerror_rate >>

\* ------------------------------------------------------ preprocess_features
preprocess_features(features) ==
    << features.duration, features.src_bytes, features.dst_bytes,
       features.land, features.wrong_fragment, features.urgent, features.hot,
       features.num_failed_logins, features.logged_in, features.num_compromised,
       features.root_shell, features.su_attempted, features.num_root,
       features.num_file_creations, features.num_shells, features.num_access_files,
       features.num_outbound_cmds, features.is_host_login, features.is_guest_login,
       features.count, features.srv_count, features.serror_rate,
       features.srv_serror_rate, features.rerror_rate, features.srv_rerror_rate,
       features.same_srv_rate, features.diff_srv_rate, features.srv_diff_host_rate,
       features.dst_host_count, features.dst_host_srv_count,
       features.dst_host_same_srv_rate, features.dst_host_diff_srv_rate,
       features.dst_host_same_src_port_rate, features.dst_host_srv_diff_host_rate,
       features.dst_host_serror_rate, features.dst_host_srv_serror_rate,
       features.dst_host_rerror_rate, features.dst_host_srv_rerror_rate >>

\* ------------------------------------------------------- model artifacts
\* What joblib.load can return: the service treats the artifact as an opaque
\* object with predict and predict_proba.  Four estimators stand for the
\* behaviours the handlers can meet:
\*   rf_bytes   fitted on the 38 numeric columns, decides on src_bytes;
\*   rf_count   fitted on the 38 numeric columns, decides on count;
\*   rf_41      fitted on all 41 columns: every 38-wide input is a shape error;
\*   svc        fitted on 38 columns, predict works, predict_proba raises.
Artifacts == {"rf_bytes", "rf_count", "rf_41", "svc"}

n_features_in(a) == IF a = "rf_41" THEN 41 ELSE 38

\* The estimator's input validation: wrong width or a non-finite entry raises.
check_array_raises(a, X) ==
    \/ Len(X) # n_features_in(a)
    \/ \E i \in 1..Len(X) : X[i] = INF

decision(a, X) ==
    CASE a = "rf_count" -> IF X[20] >= 10 THEN 1 ELSE 0
      [] OTHER -> IF X[2] >= 1000 THEN 1 ELSE 0

\* model.predict(feature_array)[0]
model_predict(a, X) ==
    IF check_array_raises(a, X)
    THEN [raised |-> TRUE, value |-> 0]
    ELSE [raised |-> FALSE, value |-> decision(a, X)]

\* float(np.max(model.predict_proba(feature_array))), in hundredths
model_predict_proba(a, X) ==
    IF check_array_raises(a, X) \/ a = "svc"
    THEN [raised |-> TRUE, value |-> 0]
    ELSE [raised |-> FALSE,
          value |-> CASE a = "rf_bytes" -> IF decision(a, X) = 1 THEN 90 ELSE 80
                      [] a = "rf_count" -> IF decision(a, X) = 1 THEN 70 ELSE 60
                      [] OTHER -> 50]

\* ------------------------------------------------------------- the handlers
\* "malicious" if prediction == 1 else "normal"
prediction_label(prediction) == IF prediction = 1 THEN "malicious" ELSE "normal"

\* threat_type set whatever the class.
threat_type_always(prediction) == "unknown"

\* "unknown" if prediction == 1 else None
threat_type(prediction) == IF prediction = 1 THEN "unknown" ELSE "None"

\* PredictionResponse(prediction=..., confidence=..., threat_type=...,
\* model_version=...) with timestamp defaulting to utcnow().
PredictionResponse(prediction, confidence, version, now) ==
    [prediction |-> prediction_label(prediction),
     confidence |-> confidence,
     threat_type |-> threat_type(prediction),
     model_version |-> version,
     timestamp |-> now]

\* The calls of the try block on one record, each with the artifact it is made
\* on: preprocess_features, then model.predict, then model.predict_proba.
try_calls(m, features) ==
    LET feature_array == preprocess_features(features)
    IN  [feature_array |-> feature_array,
         predict |-> model_predict(m, feature_array),
         proba |-> model_predict_proba(m, feature_array)]

\* try_calls over the enumerated artifacts and records, computed once.
TryCalls == [m \in Artifacts, id \in RecordIds |-> try_calls(m, FeatureOf(id))]

\* One pass of the try block for the record named id.  raised tells whether
\* an exception left the block; model_calls counts the calls made on the
\* artifact before it did.
classify(m, version, id, now) ==
    LET r == TryCalls[m, id]
    IN  IF r.predict.raised
        THEN [raised |-> TRUE, model_calls |-> 1, feature_array |-> r.feature_array]
        ELSE IF r.proba.raised
        THEN [raised |-> TRUE, model_calls |-> 2, feature_array |-> r.feature_array]
        ELSE [raised |-> FALSE, model_calls |-> 2, feature_array |-> r.feature_array,
              body |-> PredictionResponse(r.predict.value, r.proba.value, version, now)]

\* The for loop inserting each response at the head of predictions.
RECURSIVE batch_loop_prepends(_, _, _, _, _, _)
batch_loop_prepends(m, version, ids, i, predictions, now) ==
    IF i > Len(ids)
    THEN [raised |-> FALSE, predictions |-> predictions,
          encoded |-> Len(ids), model_calls |-> 2 * Len(ids),
          feature_array |-> IF ids = <<>> THEN <<>>
                            ELSE TryCalls[m, ids[Len(ids)]].feature_array]
    ELSE LET one == classify(m, version, ids[i], now)
         IN  IF one.raised
             THEN [raised |-> TRUE, predictions |-> predictions,
                   encoded |-> i, model_calls |-> 2 * (i - 1) + one.model_calls,
                   feature_array |-> one.feature_array]
             ELSE batch_loop_prepends(m, version, ids, i + 1,
                                      <<one.body>> \o predictions, now)

\* The for loop with the try inside it: a record that raises is skipped and
\* the loop goes on.
RECURSIVE batch_loop_skips(_, _, _, _, _, _)
batch_loop_skips(m, version, ids, i, predictions, now) ==
    IF i > Len(ids)
    THEN [raised |-> FALSE, predictions |-> predictions,
          encoded |-> Len(ids), model_calls |-> 2 * Len(ids),
          feature_array |-> IF ids = <<>> THEN <<>>
                            ELSE TryCalls[m, ids[Len(ids)]].feature_array]
    ELSE LET one == classify(m, version, ids[i], now)
         IN  batch_loop_skips(m, version, ids, i + 1,
                              IF one.raised THEN predictions
                              ELSE Append(predictions, one.body), now)

\* The for loop of predict_batch from item i on, predictions holding the
\* responses appended so far.
RECURSIVE batch_loop(_, _, _, _, _, _)
batch_loop(m, version, ids, i, predictions, now) ==
    IF i > Len(ids)
    THEN [raised |-> FALSE, predictions |-> predictions,
          encoded |-> Len(ids), model_calls |-> 2 * Len(ids),
          feature_array |-> IF ids = <<>> THEN <<>>
                            ELSE TryCalls[m, ids[Len(ids)]].feature_array]
    ELSE LET one == classify(m, version, ids[i], now)
         IN  IF one.raised
             THEN [raised |-> TRUE, predictions |-> predictions,
                   encoded |-> i, model_calls |-> 2 * (i - 1) + one.model_calls,
                   feature_array |-> one.feature_array]
             ELSE batch_loop(m, version, ids, i + 1, Append(predictions, one.body), now)

\* datetime.timestamp() of the naive utcnow() value: read as local time.
UtcOffsets == {-1, 0, 1}
timestamp(dt, utcoffset) == dt - utcoffset

\* Seconds a batch may take on the wall clock.
Elapsed == {0, 1}

\* ------------------------------------------------------------------- state
\* model, model_version, model_loaded_at: the module globals.
\* clock: the wall clock (utcnow, time.time).
\* started: whether the startup hook has run; requests are served after it.
\* load_result: what the last load_model call returned ("none" before any).
\* resp: the outcome of the last request, with what the handler did on the
\*   way: seen (the artifact read by the readiness check), encoded (calls of
\*   preprocess_features), model_calls (calls on the artifact), feature_array
\*   (the handler's local of that name when it ended).
\* loader, inflight: positions of a load_model call and of a request that are
\*   under way when calls overlap (specification SpecRace); idle otherwise.
VARIABLES model, model_version, model_loaded_at, clock, started, load_result, resp,
          loader, inflight

vars == <<model, model_version, model_loaded_at, clock, started, load_result, resp,
          loader, inflight>>

NoRequest == [op |-> "idle"]

Init ==
    /\ model = "None"
    /\ model_version = "v1.0"
    /\ model_loaded_at = NoTime
    /\ clock = 1
    /\ started = FALSE
    /\ load_result = "none"
    /\ resp = [op |-> "none"]
    /\ loader = "idle"
    /\ inflight = NoRequest

\* The wall clock advances.
Tick ==
    /\ clock < MaxClock
    /\ clock' = clock + 1
    /\ UNCHANGED <<model, model_version, model_loaded_at, started, load_result, resp,
                   loader, inflight>>

\* What load_model finds at MODEL_PATH: no file, a file joblib cannot
\* deserialize, or an artifact.
LoadOutcomes == {"missing", "corrupt"} \cup Artifacts

\* load_model clearing the handle when the load fails.
load_model_clears_on_failure(found) ==
    /\ IF found \in Artifacts
       THEN /\ model' = found
            /\ model_loaded_at' = clock
            /\ load_result' = "True"
       ELSE /\ model' = "None"
            /\ model_loaded_at' = NoTime
            /\ load_result' = "False"
    /\ UNCHANGED <<model_version, clock, resp, loader, inflight>>

\* ------------------------------------- calls that run one after the other
load_model(found) ==
    /\ IF found \in Artifacts
       THEN /\ model' = found
            /\ model_loaded_at' = clock
            /\ load_result' = "True"
       ELSE /\ UNCHANGED <<model, model_loaded_at>>
            /\ load_result' = "False"
    /\ UNCHANGED <<model_version, clock, resp, loader, inflight>>

startup_event(found) ==
    /\ ~started
    /\ started' = TRUE
    /\ load_model(found)

\* load_model called again after startup (a reload), between two requests.
reload(found) ==
    /\ started
    /\ UNCHANGED started
    /\ load_model(found)

\* The report with the status condition inverted.
HealthResponse_inverted(utcoffset) ==
    [status |-> IF model = "None" THEN "healthy" ELSE "degraded",
     model_loaded |-> model # "None",
     model_version |-> IF model # "None" THEN model_version ELSE "None",
     model_loaded_at |-> model_loaded_at,
     uptime_seconds |-> clock - (IF model_loaded_at # NoTime
                                 THEN timestamp(model_loaded_at, utcoffset)
                                 ELSE clock)]

HealthResponse(utcoffset) ==
    [status |-> IF model # "None" THEN "healthy" ELSE "degraded",
     model_loaded |-> model # "None",
     model_version |-> IF model # "None" THEN model_version ELSE "None",
     model_loaded_at |-> model_loaded_at,
     uptime_seconds |-> clock - (IF model_loaded_at # NoTime
                                 THEN timestamp(model_loaded_at, utcoffset)
                                 ELSE clock)]

health_check(utcoffset) ==
    /\ started
    /\ resp' = [op |-> "health_check", status |-> 200, seen |-> model,
                body |-> HealthResponse(utcoffset)]
    /\ UNCHANGED <<model, model_version, model_loaded_at, clock, started, load_result,
                   loader, inflight>>

\* predict with the readiness check after the encoding.
predict_checks_late(id) ==
    /\ started
    /\ IF model = "None"
       THEN resp' = [op |-> "predict", status |-> 503, request |-> <<id>>,
                     seen |-> model, encoded |-> 1, model_calls |-> 0,
                     feature_array |-> preprocess_features(FeatureOf(id))]
       ELSE LET one == classify(model, model_version, id, clock)
            IN  IF one.raised
                THEN resp' = [op |-> "predict", status |-> 500, request |-> <<id>>,
                              seen |-> model, encoded |-> 1,
                              model_calls |-> one.model_calls,
                              feature_array |-> one.feature_array]
                ELSE resp' = [op |-> "predict", status |-> 200, request |-> <<id>>,
                              seen |-> model, encoded |-> 1,
                              model_calls |-> one.model_calls,
                              feature_array |-> one.feature_array,
                              body |-> one.body]
    /\ UNCHANGED <<model, model_version, model_loaded_at, clock, started, load_result,
                   loader, inflight>>

\* predict dropping the artifact when the try block raises.
predict_drops_model(id) ==
    /\ started
    /\ IF model = "None"
       THEN /\ resp' = [op |-> "predict", status |-> 503, request |-> <<id>>,
                        seen |-> model, encoded |-> 0, model_calls |-> 0]
            /\ UNCHANGED <<model, model_loaded_at>>
       ELSE LET one == classify(model, model_version, id, clock)
            IN  IF one.raised
                THEN /\ resp' = [op |-> "predict", status |-> 500, request |-> <<id>>,
                                 seen |-> model, encoded |-> 1,
                                 model_calls |-> one.model_calls,
                                 feature_array |-> one.feature_array]
                     /\ model' = "None"
                     /\ model_loaded_at' = NoTime
                ELSE /\ resp' = [op |-> "predict", status |-> 200, request |-> <<id>>,
                                 seen |-> model, encoded |-> 1,
                                 model_calls |-> one.model_calls,
                                 feature_array |-> one.feature_array,
                                 body |-> one.body]
                     /\ UNCHANGED <<model, model_loaded_at>>
    /\ UNCHANGED <<model_version, clock, started, load_result, loader, inflight>>

predict(id) ==
    /\ started
    /\ IF model = "None"
       THEN resp' = [op |-> "predict", status |-> 503, request |-> <<id>>,
                     seen |-> model, encoded |-> 0, model_calls |-> 0]
       ELSE LET one == classify(model, model_version, id, clock)
            IN  IF one.raised
                THEN resp' = [op |-> "predict", status |-> 500, request |-> <<id>>,
                              seen |-> model, encoded |-> 1,
                              model_calls |-> one.model_calls,
                              feature_array |-> one.feature_array]
                ELSE resp' = [op |-> "predict", status |-> 200, request |-> <<id>>,
                              seen |-> model, encoded |-> 1,
                              model_calls |-> one.model_calls,
                              feature_array |-> one.feature_array,
                              body |-> one.body]
    /\ UNCHANGED <<model, model_version, model_loaded_at, clock, started, load_result,
                   loader, inflight>>

BatchPredictionResponse(predictions, processing_time) ==
    [predictions |-> predictions,
     total_processed |-> Len(predictions),
     processing_time_ms |-> processing_time]

predict_batch(ids, elapsed) ==
    /\ started
    /\ clock + elapsed <= MaxClock
    /\ IF model = "None"
       THEN /\ resp' = [op |-> "predict_batch", status |-> 503, request |-> ids,
                        seen |-> model, encoded |-> 0, model_calls |-> 0]
            /\ UNCHANGED clock
       ELSE LET start_time == clock
                run == batch_loop(model, model_version, ids, 1, <<>>, clock)
            IN  /\ clock' = clock + elapsed
                /\ IF run.raised
                   THEN resp' = [op |-> "predict_batch", status |-> 500, request |-> ids,
                                 seen |-> model, encoded |-> run.encoded,
                                 model_calls |-> run.model_calls,
                                 feature_array |-> run.feature_array]
                   ELSE resp' = [op |-> "predict_batch", status |-> 200, request |-> ids,
                                 seen |-> model, encoded |-> run.encoded,
                                 model_calls |-> run.model_calls,
                                 feature_array |-> run.feature_array,
                                 body |-> BatchPredictionResponse(
                                            run.predictions,
                                            (clock' - start_time) * 1000)]
    /\ UNCHANGED <<model, model_version, model_loaded_at, started, load_result,
                   loader, inflight>>

root ==
    /\ started
    /\ resp' = [op |-> "root", status |-> 200,
                body |-> [model_version |-> model_version,
                          model_loaded |-> model # "None"]]
    /\ UNCHANGED <<model, model_version, model_loaded_at, clock, started, load_result,
                   loader, inflight>>

Next ==
    \/ Tick
    \/ \E found \in LoadOutcomes : startup_event(found)
    \/ \E found \in LoadOutcomes : reload(found)
    \/ \E utcoffset \in UtcOffsets : health_check(utcoffset)
    \/ \E id \in RecordIds : predict(id)
    \/ \E ids \in Batches, elapsed \in Elapsed : predict_batch(ids, elapsed)
    \/ root

\* The handlers are coroutines without an await and load_model is a plain
\* function: on the event loop each runs to completion before the next starts.
Spec == Init /\ [][Next]_vars

\* --------------------------------------------- calls that overlap in time
\* After startup, load_model running on another thread than the event loop (a
\* reload while requests are served): its two assignments are two steps, and a request's
\* reads of the global model (the readiness check, model.predict,
\* model.predict_proba) are steps of their own, so a load may fall between.

\* load_model up to model = joblib.load(model_path), or to return False.
race_load_begin(found) ==
    /\ started
    /\ loader = "idle"
    /\ IF found \in Artifacts
       THEN /\ model' = found
            /\ loader' = found
            /\ UNCHANGED load_result
       ELSE /\ load_result' = "False"
            /\ UNCHANGED <<model, loader>>
    /\ UNCHANGED <<model_version, model_loaded_at, clock, started, resp, inflight>>

\* model_loaded_at = datetime.utcnow(); return True
race_load_finish ==
    /\ loader # "idle"
    /\ model_loaded_at' = clock
    /\ load_result' = "True"
    /\ loader' = "idle"
    /\ UNCHANGED <<model, model_version, clock, started, resp, inflight>>

\* A request arrives: the readiness check, then the first record (predict) or
\* the head of the for loop (predict_batch).
race_begin(op, ids) ==
    /\ started
    /\ inflight = NoRequest
    /\ IF model = "None"
       THEN /\ resp' = [op |-> op, status |-> 503, mixed |-> FALSE]
            /\ UNCHANGED inflight
       ELSE /\ resp' = [op |-> "none"]
            /\ inflight' = [op |-> op,
                            pc |-> IF ids = <<>> THEN "return" ELSE "predict",
                            request |-> ids, i |-> 1, predictions |-> <<>>,
                            prediction |-> 0, label_from |-> "None", mixed |-> FALSE]
    /\ UNCHANGED <<model, model_version, model_loaded_at, clock, started, load_result,
                   loader>>

\* prediction = model.predict(feature_array)[0] on the artifact model names now.
race_call_predict ==
    /\ inflight.op # "idle"
    /\ inflight.pc = "predict"
    /\ LET p == TryCalls[model, inflight.request[inflight.i]].predict
       IN  IF p.raised
           THEN /\ resp' = [op |-> inflight.op, status |-> 500, mixed |-> inflight.mixed]
                /\ inflight' = NoRequest
           ELSE /\ inflight' = [inflight EXCEPT !.pc = "proba", !.prediction = p.value,
                                                !.label_from = model]
                /\ UNCHANGED resp
    /\ UNCHANGED <<model, model_version, model_loaded_at, clock, started, load_result,
                   loader>>

\* confidence = float(np.max(model.predict_proba(feature_array))) on the
\* artifact model names now, then the label mapping and the PredictionResponse.
race_call_proba ==
    /\ inflight.op # "idle"
    /\ inflight.pc = "proba"
    /\ LET c == TryCalls[model, inflight.request[inflight.i]].proba
       IN  IF c.raised
           THEN /\ resp' = [op |-> inflight.op, status |-> 500, mixed |-> inflight.mixed]
                /\ inflight' = NoRequest
           ELSE /\ inflight' =
                      [inflight EXCEPT
                         !.pc = IF inflight.i = Len(inflight.request)
                                THEN "return" ELSE "predict",
                         !.i = inflight.i + 1,
                         !.predictions =
                             Append(inflight.predictions,
                                    PredictionResponse(inflight.prediction, c.value,
                                                       model_version, clock)),
                         !.mixed = inflight.mixed \/ model # inflight.label_from]
                /\ UNCHANGED resp
    /\ UNCHANGED <<model, model_version, model_loaded_at, clock, started, load_result,
                   loader>>

\* return PredictionResponse(...) / return BatchPredictionResponse(...)
race_return ==
    /\ inflight.op # "idle"
    /\ inflight.pc = "return"
    /\ resp' = [op |-> inflight.op, status |-> 200, mixed |-> inflight.mixed,
                body |-> IF inflight.op = "predict"
                         THEN inflight.predictions[1]
                         ELSE BatchPredictionResponse(inflight.predictions, 0)]
    /\ inflight' = NoRequest
    /\ UNCHANGED <<model, model_version, model_loaded_at, clock, started, load_result,
                   loader>>

\* health_check; torn tells whether it read the handle between the two
\* assignments of a load.
race_health_check(utcoffset) ==
    /\ started
    /\ resp' = [op |-> "health_check", status |-> 200, body |-> HealthResponse(utcoffset),
                torn |-> loader # "idle"]
    /\ UNCHANGED <<model, model_version, model_loaded_at, clock, started, load_result,
                   loader, inflight>>

NextRace ==
    \/ Tick
    \/ \E found \in LoadOutcomes : startup_event(found)
    \/ \E found \in LoadOutcomes : race_load_begin(found)
    \/ race_load_finish
    \/ \E id \in RecordIds : race_begin("predict", <<id>>)
    \/ \E ids \in Batches : race_begin("predict_batch", ids)
    \/ race_call_predict
    \/ race_call_proba
    \/ race_return
    \/ \E utcoffset \in UtcOffsets : race_health_check(utcoffset)

SpecRace == Init /\ [][NextRace]_vars

\* ================================================================= claims
IsPrediction == resp.op \in {"predict", "predict_batch"}

\* The PredictionResponse values the last request returned, in order.
Results ==
    IF IsPrediction /\ resp.status = 200
    THEN IF resp.op = "predict" THEN <<resp.body>> ELSE resp.body.predictions
    ELSE <<>>

\* Whether artifact m raises on the record named id, in predict or predict_proba.
Raises(m, id) == TryCalls[m, id].predict.raised \/ TryCalls[m, id].proba.raised

\* The non-categorical names of FEATURE_NAMES, in its order.
NumericNames == SelectSeq(FEATURE_NAMES, LAMBDA n : n \notin CategoricalFields)

\* The record's non-categorical fields in FEATURE_NAMES order.
Canonical == [id \in RecordIds |->
                 [i \in 1..Len(NumericNames) |-> FeatureOf(id)[NumericNames[i]]]]

\* C1: a predict or predict_batch request that finds no model loaded ends
\* with 503, having called neither preprocess_features nor the artifact; and
\* while no model is loaded every such outcome on record is of that kind.
C1_ReadinessGating ==
    IsPrediction =>
        /\ resp.seen = "None" =>
              /\ resp.status = 503
              /\ resp.encoded = 0
              /\ resp.model_calls = 0
        /\ model = "None" => resp.seen = "None"

\* A two-record batch was refused with 503 after a load had failed.
C1_Witness ==
    /\ resp.op = "predict_batch"
    /\ resp.status = 503
    /\ Len(resp.request) = 2
    /\ load_result = "False"

\* C3: a predict_batch answered with 200 on N records returns N predictions,
\* total_processed = N, and the i-th prediction is the classification of the
\* i-th record by the loaded artifact.
C3_BatchOrder ==
    (resp.op = "predict_batch" /\ resp.status = 200) =>
        /\ Len(resp.body.predictions) = Len(resp.request)
        /\ resp.body.total_processed = Len(resp.request)
        /\ \A i \in 1..Len(resp.request) :
              LET r == TryCalls[resp.seen, resp.request[i]]
                  out == resp.body.predictions[i]
              IN  /\ out.prediction = IF r.predict.value = 1 THEN "malicious" ELSE "normal"
                  /\ out.confidence = r.proba.value
                  /\ out.model_version = model_version

\* A two-record batch was answered whose two records are classified differently.
C3_Witness ==
    /\ resp.op = "predict_batch"
    /\ resp.status = 200
    /\ Len(resp.request) = 2
    /\ resp.body.predictions[1].prediction = "malicious"
    /\ resp.body.predictions[2].prediction = "normal"

\* C4: in every result returned, class 1 gives label "malicious" with
\* threat_type "unknown" and class 0 gives "normal" with no threat_type.
C4_LabelMapping ==
    \A i \in 1..Len(Results) :
        LET class == TryCalls[resp.seen, resp.request[i]].predict.value
            out == Results[i]
        IN  /\ class = 1 => out.prediction = "malicious" /\ out.threat_type = "unknown"
            /\ class = 0 => out.prediction = "normal" /\ out.threat_type = "None"
            /\ out.prediction \in {"normal", "malicious"}
            /\ out.threat_type # "None" <=> out.prediction = "malicious"

\* A batch returned one malicious and one normal result.
C4_Witness ==
    /\ resp.op = "predict_batch"
    /\ resp.status = 200
    /\ \E i, j \in 1..Len(Results) :
          /\ Results[i].prediction = "malicious" /\ Results[i].threat_type = "unknown"
          /\ Results[j].prediction = "normal" /\ Results[j].threat_type = "None"

\* C5: with a model loaded, a batch one of whose records makes the artifact
\* raise ends with 500 and carries no predictions, however many records were
\* classified before it; a batch answered with predictions had none.
C5_BatchAllOrNothing ==
    (resp.op = "predict_batch" /\ resp.seen # "None") =>
        /\ (\E k \in 1..Len(resp.request) : Raises(resp.seen, resp.request[k])) =>
              /\ resp.status = 500
              /\ "body" \notin DOMAIN resp
        /\ "body" \in DOMAIN resp =>
              /\ resp.status = 200
              /\ \A k \in 1..Len(resp.request) : ~Raises(resp.seen, resp.request[k])

\* A batch failed on its second record after its first had been classified.
C5_Witness ==
    /\ resp.op = "predict_batch"
    /\ resp.status = 500
    /\ resp.encoded = 2
    /\ ~Raises(resp.seen, resp.request[1])

\* C7: a health report always returns, says "healthy" exactly when an
\* artifact is loaded and "degraded" otherwise, and its model_loaded tells
\* whether one is loaded.
C7_HealthReport ==
    resp.op = "health_check" =>
        /\ resp.status = 200
        /\ resp.body.model_loaded = (resp.seen # "None")
        /\ resp.body.status = IF resp.seen # "None" THEN "healthy" ELSE "degraded"

\* A degraded report after a failed load, and none loaded since.
C7_Witness ==
    /\ resp.op = "health_check"
    /\ resp.body.status = "degraded"
    /\ load_result = "False"

\* C8: the array handed to the artifact, in predict and in predict_batch, is
\* the record's 38 non-categorical fields in FEATURE_NAMES order.
C8_CanonicalEncoding ==
    (IsPrediction /\ resp.encoded >= 1) =>
        /\ Len(resp.feature_array) = Len(FEATURE_NAMES) - Cardinality(CategoricalFields)
        /\ Len(resp.feature_array) = 38
        /\ resp.feature_array = Canonical[resp.request[resp.encoded]]

\* A batch whose last encoded record has pairwise different fields.
C8_Witness ==
    /\ resp.op = "predict_batch"
    /\ resp.encoded = 2
    /\ resp.request[2] = "distinct"
    /\ resp.feature_array[2] = 5

\* A call of load_model, at startup or later, finding `found` at MODEL_PATH.
LoadStep(found) == startup_event(found) \/ reload(found)

\* C2: no artifact is loaded initially; one is loaded after every load that
\* succeeds; a load that fails, with or without an artifact loaded, leaves
\* the artifact and its load time as they were; and nothing but a load that
\* succeeds makes the service ready.
C2_ReadinessLifecycle ==
    /\ model = "None"
    /\ [][/\ \A found \in Artifacts : LoadStep(found) => model' = found
          /\ \A found \in LoadOutcomes \ Artifacts :
                LoadStep(found) => model' = model /\ model_loaded_at' = model_loaded_at
          /\ (model = "None" /\ model' # "None") =>
                \E found \in Artifacts : LoadStep(found)
          /\ model # "None" => model' # "None"]_vars

\* The last load failed while an artifact was loaded, and it still is.
C2_Witness ==
    /\ load_result = "False"
    /\ model # "None"
    /\ model_loaded_at # NoTime

\* C6: with a model loaded, a predict or predict_batch whose try block raises
\* ends with 500, and the step of any predict or predict_batch leaves model,
\* model_version and model_loaded_at as they were.
C6_FailureContainment ==
    [][(resp' # resp /\ resp'.op \in {"predict", "predict_batch"}) =>
          /\ model' = model
          /\ model_version' = model_version
          /\ model_loaded_at' = model_loaded_at
          /\ (model # "None" /\ \E k \in 1..Len(resp'.request) :
                                    Raises(model, resp'.request[k])) =>
                /\ resp'.status = 500
                /\ model' # "None"]_vars

\* A predict ended with 500 and the artifact it ran on is still the loaded one.
C6_Witness ==
    /\ resp.op = "predict"
    /\ resp.status = 500
    /\ resp.seen # "None"
    /\ model = resp.seen

\* The version each artifact was published under: the "new artifact's
\* version" that C9 speaks of.  The service itself reads no such tag.
artifact_version(a) ==
    CASE a = "rf_bytes" -> "v1.0"
      [] a = "rf_count" -> "v1.1"
      [] a = "rf_41" -> "v2.0"
      [] OTHER -> "v1.0"

\* C9: a load that succeeds while an artifact is loaded overwrites the
\* artifact, the load time and the version string, which becomes the new
\* artifact's version.
C9_ReloadOverwritesHandle ==
    [][\A found \in Artifacts :
          (model # "None" /\ reload(found)) =>
              /\ model' = found
              /\ model_loaded_at' = clock
              /\ model_version' = artifact_version(found)]_vars

====
